---- MODULE Spec2Model ----
(***************************************************************************)
(* Model of python/ssh_password_check.py: the run loop over targets.txt    *)
(* (deduplication, per-host probe, failure counter, cool-down) and the     *)
(* probe test_login.  Strings are sequences of one-character strings, so   *)
(* strip(), replace(), "in" and the f-strings are computed, not assumed.   *)
(***************************************************************************)
EXTENDS Integers, Sequences, FiniteSets, TLC

VARIABLES
    readable,   \* whether open("targets.txt") and readlines() succeed (line 31)
    lines,      \* file.readlines(): the raw lines of targets.txt
    i,          \* number of lines the for loop has consumed
    hname,      \* the loop variable hname (line 33)
    seen,       \* the set seen (line 29)
    failed,     \* the counter failed (line 30)
    login,      \* the value test_login returned (line 36)
    out,        \* standard output: the lines printed so far (line 39)
    cooled,     \* the report lines after which time.sleep(30) ran (line 43)
    probed,     \* the hosts client.connect was called with, in order (line 12)
    conn,       \* the probe's connection: "none", "open" or "closed"
    closes,     \* calls of client.close() made by the current probe
    accepted,   \* whether client.connect returned, the credential accepted
    exc,        \* the exception the probe's try block raised, if any
    closeFailed,\* whether the close of the finally block raised (lines 25-28)
    pc          \* position of the script

vars == <<readable, lines, i, hname, seen, failed, login, out, cooled, probed,
          conn, closes, accepted, exc, closeFailed, pc>>

(***************************************************************************)
(* Bounds and inputs.                                                      *)
(***************************************************************************)
MaxLines == 3

\* Raw lines of the input file, as readlines() returns them.
RawLines ==
    { <<"a", "\n">>,                       \* a
      <<"\"", "a", "\"", " ", "\n">>,      \* "a" followed by a blank
      <<" ", "\"", "\"", "\n">>,           \* a blank line: only a blank and two quotes
      <<" ", "b", "\n">>,                  \* b after a blank
      <<"c">> }                            \* c, last line without newline

Files == UNION { [1..n -> RawLines] : n \in 0..MaxLines }

\* str(e) of an exception other than AuthenticationException raised by connect
TimedOut == <<"t", "i", "m", "e", "d", " ", "o", "u", "t">>
ConnectMsgs == { TimedOut, <<>> }
\* str(e) of paramiko.AuthenticationException
AuthMsgs == { <<"A", "u", "t", "h", "e", "n", "t", "i", "c", "a", "t", "i", "o", "n",
                " ", "f", "a", "i", "l", "e", "d", ".">> }
\* str(e) of an exception raised by client.close()
CloseMsgs == { <<"E", "O", "F">> }

NoExc == [kind |-> "none", msg |-> <<>>]

(***************************************************************************)
(* String functions of the script.                                         *)
(***************************************************************************)
Whitespace == {" ", "\n", "\t", "\r"}

RECURSIVE LStrip(_)
LStrip(s) == IF s # <<>> /\ Head(s) \in Whitespace THEN LStrip(Tail(s)) ELSE s

RECURSIVE RStrip(_)
RStrip(s) ==
    IF s # <<>> /\ s[Len(s)] \in Whitespace THEN RStrip(SubSeq(s, 1, Len(s) - 1)) ELSE s

\* str.strip()
Strip(s) == RStrip(LStrip(s))

NotQuote(c) == c # "\""

\* str.replace('"', '')
RemoveQuotes(s) == SelectSeq(s, NotQuote)

\* sub in s
Contains(s, sub) ==
    \E k \in 0..(Len(s) - Len(sub)) : SubSeq(s, k + 1, k + Len(sub)) = sub

\* hname = line.strip().replace('"','')
Normalize(line) == RemoveQuotes(Strip(line))

ShouldProbeNoDedup(h, s) == h # <<>>
ShouldProbeBlank(h, s) == h \notin s

\* if hname != "" and hname not in seen
ShouldProbe(h, s) == h # <<>> /\ h \notin s

TrueText == <<"T", "r", "u", "e">>
FalseText == <<"F", "a", "l", "s", "e">>
FalsePrefix == FalseText \o <<",", " ">>
BadLoginText == <<"B", "a", "d", " ", "u", "s", "e", "r", "n", "a", "m", "e", " ",
                  "o", "r", " ", "p", "a", "s", "s", "w", "o", "r", "d">>

\* return "True"
SuccessResult == TrueText
\* return "False, Bad username or password"
AuthResult == FalsePrefix \o BadLoginText
OtherResultNoMessage(msg) == FalsePrefix

\* return f"False, {str(e)}"
OtherResult(msg) == FalsePrefix \o msg

IsFailureAuthOnly(l) == Contains(l, BadLoginText)

\* if "False" in login
IsFailure(l) == Contains(l, FalseText)

CountFailureIncrement(f) == f + 1

\* failed =+ 1   (that is, failed = +1)
CountFailure(f) == 1

\* if "False" in login: failed =+ 1
Counted(l, f) == IF IsFailure(l) THEN CountFailure(f) ELSE f

Threshold == 2

InitialFailedHigh == Threshold + 1

\* failed = 0
InitialFailed == 0

NeedCooldownEarly(f) == f > 0

\* if failed > 2
NeedCooldown(f) == f > Threshold

RememberNothing(s, h) == s
RememberOnlyLast(s, h) == {h}

\* seen.add(hname)
Remember(s, h) == s \cup {h}

ExhaustedEarly(k, n) == k >= 1 \/ k >= n

\* print(f'{hname},{login}')
ReportLine(h, l) == h \o <<",">> \o l

PrintedNothing(o, h, l) == o

\* standard output after the print of line 39
Printed(o, h, l) == Append(o, ReportLine(h, l))

\* the for loop over file.readlines() is exhausted
Exhausted(k, n) == k >= n

(***************************************************************************)
(* Initial state: lines 29-31.                                             *)
(***************************************************************************)
Init ==
    /\ readable \in BOOLEAN
    /\ lines \in Files
    /\ i = 0
    /\ hname = <<>>
    /\ seen = {}
    /\ failed = InitialFailed
    /\ login = <<>>
    /\ out = <<>>
    /\ cooled = {}
    /\ probed = <<>>
    /\ conn = "none"
    /\ closes = 0
    /\ accepted = FALSE
    /\ exc = NoExc
    /\ closeFailed = FALSE
    /\ pc = "open"

(***************************************************************************)
(* Opening and reading the input, lines 31-32.                             *)
(***************************************************************************)
OpenErrorIgnored == "loop"

\* where the script is after open() or readlines() raised: nothing catches
\* the exception, the script ends with a traceback
OpenError == "aborted"

\* with open("targets.txt") as file: ... file.readlines()
Open ==
    /\ pc = "open"
    /\ pc' = (IF readable THEN "loop" ELSE OpenError)
    /\ UNCHANGED <<readable, lines, i, hname, seen, failed, login, out, cooled, probed,
                   conn, closes, accepted, exc, closeFailed>>

(***************************************************************************)
(* The run loop, lines 32-35.                                              *)
(***************************************************************************)
\* a line that is blank or already seen: the body of the if is skipped
SkipLine ==
    /\ pc = "loop"
    /\ ~Exhausted(i, Len(lines))
    /\ ~ShouldProbe(Normalize(lines[i + 1]), seen)
    /\ hname' = Normalize(lines[i + 1])
    /\ i' = i + 1
    /\ UNCHANGED <<readable, lines, seen, failed, login, out, cooled, probed, conn, closes,
                   accepted, exc, closeFailed, pc>>

\* a new host: seen.add(hname), then test_login is entered (lines 9-10)
TakeLine ==
    /\ pc = "loop"
    /\ ~Exhausted(i, Len(lines))
    /\ ShouldProbe(Normalize(lines[i + 1]), seen)
    /\ hname' = Normalize(lines[i + 1])
    /\ i' = i + 1
    /\ seen' = Remember(seen, Normalize(lines[i + 1]))
    /\ conn' = "none"
    /\ closes' = 0
    /\ accepted' = FALSE
    /\ exc' = NoExc
    /\ closeFailed' = FALSE
    /\ pc' = "connect"
    /\ UNCHANGED <<readable, lines, failed, login, out, cooled, probed>>

\* the loop ends
Finish ==
    /\ pc = "loop"
    /\ Exhausted(i, Len(lines))
    /\ pc' = "done"
    /\ UNCHANGED <<readable, lines, i, hname, seen, failed, login, out, cooled, probed, conn,
                   closes, accepted, exc, closeFailed>>

(***************************************************************************)
(* test_login, lines 11-28.                                                *)
(***************************************************************************)
\* client.connect(...), lines 12-14, and the except clauses, lines 18-23
Connect ==
    /\ pc = "connect"
    /\ probed' = Append(probed, hname)
    /\ \/ /\ conn' = "open"
          /\ accepted' = TRUE
          /\ pc' = "close"
          /\ UNCHANGED <<login, exc>>
       \/ \E m \in AuthMsgs :
             /\ conn' = "open"
             /\ UNCHANGED accepted
             /\ exc' = [kind |-> "auth", msg |-> m]
             /\ login' = AuthResult
             /\ pc' = "finally"
       \/ \E m \in ConnectMsgs, c \in {"none", "open"} :
             /\ conn' = c
             /\ UNCHANGED accepted
             /\ exc' = [kind |-> "other", msg |-> m]
             /\ login' = OtherResult(m)
             /\ pc' = "finally"
    /\ UNCHANGED <<readable, lines, i, hname, seen, failed, out, cooled, closes, closeFailed>>

\* client.close() inside the try block and the return, lines 15-17; a close
\* that raises is caught by "except Exception", lines 21-23
CloseInTry ==
    /\ pc = "close"
    /\ closes' = closes + 1
    /\ \/ /\ conn' = "closed"
          /\ login' = SuccessResult
          /\ UNCHANGED exc
       \/ \E m \in CloseMsgs, c \in {"open", "closed"} :
             /\ conn' = c
             /\ exc' = [kind |-> "other", msg |-> m]
             /\ login' = OtherResult(m)
    /\ pc' = "finally"
    /\ UNCHANGED <<readable, lines, i, hname, seen, failed, out, cooled, probed, accepted,
                   closeFailed>>

CleanupSkipped(c) == c

\* the connection after the client.close() of the finally block has returned
CleanupClose(c) == IF c = "open" THEN "closed" ELSE c

\* finally: try: client.close() except Exception: pass, lines 24-28; a close
\* that raises is swallowed, and may or may not have released the connection
Finally ==
    /\ pc = "finally"
    /\ closes' = closes + 1
    /\ \/ /\ conn' = CleanupClose(conn)
          /\ closeFailed' = FALSE
       \/ /\ conn' \in {conn, CleanupClose(conn)}
          /\ closeFailed' = TRUE
    /\ pc' = "report"
    /\ UNCHANGED <<readable, lines, i, hname, seen, failed, login, out, cooled, probed,
                   accepted, exc>>

(***************************************************************************)
(* The run loop, lines 37-43.                                              *)
(***************************************************************************)
\* count the failure and print the report line, lines 37-39
Report ==
    /\ pc = "report"
    /\ failed' = Counted(login, failed)
    /\ out' = Printed(out, hname, login)
    /\ pc' = "backoff"
    /\ UNCHANGED <<readable, lines, i, hname, seen, login, cooled, probed, conn, closes,
                   accepted, exc, closeFailed>>

\* if failed > 2: failed = 0; time.sleep(30), lines 41-43
Backoff ==
    /\ pc = "backoff"
    /\ IF NeedCooldown(failed)
       THEN /\ failed' = 0
            /\ cooled' = cooled \cup {Len(out)}
       ELSE UNCHANGED <<failed, cooled>>
    /\ pc' = "loop"
    /\ UNCHANGED <<readable, lines, i, hname, seen, login, out, probed, conn, closes,
                   accepted, exc, closeFailed>>

Next ==
    \/ Open
    \/ SkipLine
    \/ TakeLine
    \/ Finish
    \/ Connect
    \/ CloseInTry
    \/ Finally
    \/ Report
    \/ Backoff

Spec == Init /\ [][Next]_vars

\* the script runs until it ends: no step waits on anything but the bounded
\* connect timeout and the sleep
FairSpec == Spec /\ WF_vars(Next)

(***************************************************************************)
(* Reading the output back: a report line is host, comma, outcome text.    *)
(* No host of RawLines holds a comma, so the first comma separates them.   *)
(***************************************************************************)
FirstComma(l) == CHOOSE k \in 1..Len(l) : l[k] = "," /\ \A j \in 1..(k - 1) : l[j] # ","
HostOf(l) == SubSeq(l, 1, FirstComma(l) - 1)
TextOf(l) == SubSeq(l, FirstComma(l) + 1, Len(l))

\* the k-th report line shows a failure outcome (AuthFailure or ConnectionError)
FailedLine(k) == TextOf(out[k]) # TrueText

\* the script is between two iterations of the loop, or has ended
AtBoundary == pc \in {"loop", "done"}

\* the k-th target has been processed completely (lines 36-43)
Processed(k) == k < Len(out) \/ (k = Len(out) /\ AtBoundary)

(***************************************************************************)
(* C1 - Backoff trigger: when three consecutive probe outcomes are         *)
(* failures (and no cool-down was entered on the first two of them), the   *)
(* step that processes the third failure enters the cool-down, and the     *)
(* failure counter is 0 when that step returns.                            *)
(***************************************************************************)
BackoffTrigger ==
    \A k \in 3..Len(out) :
        ( /\ Processed(k)
          /\ FailedLine(k - 2) /\ FailedLine(k - 1) /\ FailedLine(k)
          /\ (k - 2) \notin cooled /\ (k - 1) \notin cooled )
        => /\ k \in cooled
           /\ (k = Len(out) => failed = 0)

(***************************************************************************)
(* C2 - Dedup: every non-empty normalized hostname of the input produces   *)
(* exactly one report line, and the report lines are in the order of the   *)
(* first occurrences of their hostnames.  Stated at every iteration        *)
(* boundary for the lines consumed so far, hence at the end for the file.  *)
(***************************************************************************)
Names == [k \in 1..Len(lines) |-> Normalize(lines[k])]

IsFirstOccurrence(k) == Names[k] # <<>> /\ \A j \in 1..(k - 1) : Names[j] # Names[k]

RECURSIVE FirstOccurrences(_)
FirstOccurrences(n) ==
    IF n = 0 THEN <<>>
    ELSE IF IsFirstOccurrence(n) THEN Append(FirstOccurrences(n - 1), Names[n])
    ELSE FirstOccurrences(n - 1)

ReportedHosts == [k \in 1..Len(out) |-> HostOf(out[k])]

DedupInOrder == AtBoundary => ReportedHosts = FirstOccurrences(i)

\* a file whose first two lines are written differently and name the same
\* host, followed by another host, has been processed to the end
DedupWitness ==
    /\ pc = "done"
    /\ Len(lines) = 3
    /\ lines[1] # lines[2]
    /\ Names[1] = Names[2]
    /\ Names[3] \notin {<<>>, Names[1]}
    /\ Len(out) = 2

(***************************************************************************)
(* C3 - No premature backoff: two consecutive failures followed by a       *)
(* success trigger no cool-down, neither on the failures nor on the        *)
(* success; and the cool-down is never entered while the failure counter   *)
(* is at most the threshold.                                               *)
(***************************************************************************)
NoCooldownOnFailFailSuccess ==
    \A k \in 3..Len(out) :
        (FailedLine(k - 2) /\ FailedLine(k - 1) /\ ~FailedLine(k))
        => cooled \cap {k - 2, k - 1, k} = {}

NoPrematureBackoff ==
    /\ []NoCooldownOnFailFailSuccess
    /\ [][cooled' # cooled => failed > Threshold]_vars

\* two failures and then a success have been processed, without a cool-down
NoPrematureBackoffWitness ==
    /\ pc = "loop"
    /\ Len(out) = 3
    /\ FailedLine(1) /\ FailedLine(2) /\ ~FailedLine(3)
    /\ failed = 1
    /\ cooled = {}

(***************************************************************************)
(* The outcome classes of a probe, read off what client.connect did.       *)
(***************************************************************************)
\* the probe has returned and its result has not been counted or printed yet
Returned == pc = "report"

\* client.connect raised (the probe threw during connection or authentication)
ConnectRaised == ~accepted /\ exc.kind # "none"

(***************************************************************************)
(* C4 - Outcome mapping: an accepted credential is reported as True, an    *)
(* authentication-specific rejection as False, Bad username or password,   *)
(* any other failure with message msg as False, msg; and the line printed  *)
(* is host, comma, that text.                                              *)
(***************************************************************************)
OutcomeMapping ==
    /\ Returned =>
          /\ accepted => login = TrueText
          /\ (~accepted /\ exc.kind = "auth") => login = FalsePrefix \o BadLoginText
          /\ (~accepted /\ exc.kind = "other") => login = FalsePrefix \o exc.msg
    /\ pc = "backoff" => out[Len(out)] = hname \o <<",">> \o login

(***************************************************************************)
(* C5 - Empty-line robustness: the step that processes a line normalizing  *)
(* to the empty string prints nothing, starts no probe, and leaves the     *)
(* failure counter and the seen-set unchanged.                             *)
(***************************************************************************)
NextLineIsEmpty == pc = "loop" /\ i < Len(lines) /\ Normalize(lines[i + 1]) = <<>>

EmptyLineNoEffect ==
    [][NextLineIsEmpty =>
          /\ out' = out
          /\ probed' = probed
          /\ pc' = "loop"
          /\ failed' = failed
          /\ seen' = seen
          /\ i' = i + 1]_vars

\* an empty line has just been passed over, after a failed probe of a host
EmptyLineWitness ==
    /\ pc = "loop"
    /\ i = 2
    /\ Names[1] # <<>>
    /\ Names[2] = <<>>
    /\ failed = 1
    /\ Len(out) = 1
    /\ Cardinality(seen) = 1

EveryReportHasItsProbe ==
    AtBoundary =>
        /\ Len(out) = Len(probed)
        /\ \A k \in 1..Len(out) : HostOf(out[k]) = probed[k]

RunNotAborted == pc \notin {"done", "aborted"} => ENABLED Next

EveryFailureIsConnectionError ==
    /\ (Returned /\ exc.kind # "none") => login = FalsePrefix \o exc.msg
    /\ EveryReportHasItsProbe
    /\ RunNotAborted

(***************************************************************************)
(* C7 as amended: every exception raised while probing a host, other than  *)
(* the authentication-specific rejection, is converted into a              *)
(* ConnectionError result carrying its description; the authentication-    *)
(* specific rejection is converted into AuthFailure; neither aborts the    *)
(* run: the host's report line is printed and the loop goes on.            *)
(***************************************************************************)
FailuresConvertedRunContinues ==
    /\ (Returned /\ exc.kind = "other") => login = FalsePrefix \o exc.msg
    /\ (Returned /\ exc.kind = "auth") => login = FalsePrefix \o BadLoginText
    /\ EveryReportHasItsProbe
    /\ RunNotAborted

\* the first probe timed out, its line was printed, and the next target has
\* been processed after it
FailuresConvertedWitness ==
    /\ pc = "loop"
    /\ Len(out) = 2
    /\ out[1] = probed[1] \o <<",">> \o FalsePrefix \o TimedOut
    /\ HostOf(out[2]) = probed[2]

(***************************************************************************)
(* C8 - Termination: the run loop, once the input has been read,           *)
(* eventually reaches Done, and Done is reached only after every input     *)
(* line has been consumed.                                                 *)
(***************************************************************************)
Termination ==
    /\ (pc = "loop") ~> (pc = "done")
    /\ [](pc = "done" => i = Len(lines))

\* a run of three lines, all probed and all failed, has ended
TerminationWitness ==
    /\ pc = "done"
    /\ i = 3
    /\ Len(out) = 3
    /\ \A k \in 1..3 : FailedLine(k)

(***************************************************************************)
(* C9 - No retry: each unique non-empty normalized target is probed        *)
(* exactly once, with one connection attempt, whatever its outcome; the    *)
(* number of probes equals the number of report lines.                     *)
(***************************************************************************)
ProbesOf(h) == {k \in 1..Len(probed) : probed[k] = h}

NoRetry ==
    /\ \A k \in 1..Len(probed) : Cardinality(ProbesOf(probed[k])) = 1
    /\ AtBoundary =>
          /\ \A k \in 1..i : Names[k] # <<>> => Cardinality(ProbesOf(Names[k])) = 1
          /\ Len(probed) = Len(out)

\* the same host on two lines: the first probe failed, the second line was
\* passed over, and the run ended with one probe
NoRetryWitness ==
    /\ pc = "done"
    /\ Len(lines) = 2
    /\ Names[1] = Names[2]
    /\ Len(probed) = 1
    /\ FailedLine(1)

(***************************************************************************)
(* C10 - Closing failures are swallowed: a failure of client.close() does  *)
(* not change the probe's result; an accepted credential is reported as    *)
(* Success.                                                                *)
(***************************************************************************)
CloseFailureSwallowed == (Returned /\ accepted) => login = TrueText

(***************************************************************************)
(* C11 - InputError is fatal before probing: when the input file is        *)
(* missing or unreadable the run aborts; no probe has started and no       *)
(* report line has been printed.                                           *)
(***************************************************************************)
InputErrorFatal ==
    ~readable =>
        /\ pc \in {"open", "aborted"}
        /\ probed = <<>>
        /\ out = <<>>
        /\ seen = {}

\* the script has aborted on a file that would have named three targets
InputErrorWitness ==
    /\ ~readable
    /\ pc = "aborted"
    /\ Len(lines) = 3
    /\ \A k \in 1..3 : IsFirstOccurrence(k)

(***************************************************************************)
(* C12 - Literal behaviour of the counter: in every reachable state the    *)
(* failure counter is 0 or 1, the condition failed > 2 is false, and no    *)
(* cool-down has been entered.                                             *)
(***************************************************************************)
CounterIsZeroOrOne ==
    /\ failed \in {0, 1}
    /\ ~(failed > 2)
    /\ cooled = {}

\* the third failure in a row has just been counted: the counter is 1
CounterIsZeroOrOneWitness ==
    /\ pc = "backoff"
    /\ Len(out) = 3
    /\ \A k \in 1..3 : FailedLine(k)
    /\ failed = 1

(***************************************************************************)
(* C13 - A Success outcome does not reset the failure counter: the steps   *)
(* that process a target whose probe returned Success leave the counter    *)
(* unchanged.                                                              *)
(***************************************************************************)
ProcessingSuccess == pc \in {"report", "backoff"} /\ login = TrueText

SuccessKeepsCounter == [][ProcessingSuccess => failed' = failed]_vars

(***************************************************************************)
(* C13, whole - ... so that failures separated by successes still          *)
(* accumulate toward the threshold: after a failure, a success and a       *)
(* failure the counter is 2.                                               *)
(***************************************************************************)
FailuresAccumulateAcrossSuccess ==
    ( /\ pc = "loop"
      /\ Len(out) = 3
      /\ FailedLine(1) /\ ~FailedLine(2) /\ FailedLine(3) )
    => failed = 2

SuccessKeepsCounterFailuresAccumulate ==
    /\ SuccessKeepsCounter
    /\ []FailuresAccumulateAcrossSuccess

(***************************************************************************)
(* C14 - Failure causes are not distinguished: an outcome is counted as a  *)
(* failure exactly when it is not Success, and for every counter value an  *)
(* AuthFailure and a ConnectionError with any message have the same effect *)
(* on the counter and on whether the cool-down is entered.                 *)
(***************************************************************************)
ErrorTexts == {FalsePrefix \o m : m \in ConnectMsgs \cup CloseMsgs}

CounterValues == 0..(Threshold + 1)

FailureCausesNotDistinguished ==
    /\ \A l \in {TrueText, FalsePrefix \o BadLoginText} \cup ErrorTexts :
          /\ IsFailure(l) <=> (l # TrueText)
          /\ \A f \in CounterValues : ~IsFailure(l) => Counted(l, f) = f
    /\ \A l \in ErrorTexts : \A f \in CounterValues :
          /\ Counted(l, f) = Counted(FalsePrefix \o BadLoginText, f)
          /\ NeedCooldown(Counted(l, f)) = NeedCooldown(Counted(FalsePrefix \o BadLoginText, f))
    /\ pc = "backoff" =>
          /\ FailedLine(Len(out)) => failed = 1
          /\ login \in {TrueText, FalsePrefix \o BadLoginText} \cup ErrorTexts

\* a success, an authentication failure and a time-out have been processed in
\* this order
FailureCausesWitness ==
    /\ pc = "loop"
    /\ Len(out) = 3
    /\ TextOf(out[1]) = TrueText
    /\ TextOf(out[2]) = FalsePrefix \o BadLoginText
    /\ TextOf(out[3]) = FalsePrefix \o TimedOut
    /\ failed = 1

(***************************************************************************)
(* C15 - Strict sequencing: at most one probe is in progress at any time,  *)
(* and the report line of a target is printed after its probe has          *)
(* completed and before the probe of the next target starts.               *)
(***************************************************************************)
\* test_login has been entered and its result has not been printed yet
ProbePending == pc \in {"connect", "close", "finally", "report"}

StrictSequencing ==
    /\ Cardinality(seen) - Len(out) = (IF ProbePending THEN 1 ELSE 0)
    /\ Len(probed) - Len(out) = (IF pc \in {"close", "finally", "report"} THEN 1 ELSE 0)
    /\ \A k \in 1..Len(out) : HostOf(out[k]) = probed[k]

\* the probe of the second target is in progress, the first target's line
\* being the only one printed
StrictSequencingWitness ==
    /\ pc = "finally"
    /\ Len(probed) = 2
    /\ Len(out) = 1
    /\ HostOf(out[1]) = probed[1]
    /\ hname = probed[2]

(***************************************************************************)
(* C17 - The seen-set only grows: it is empty when the run starts and no   *)
(* step removes an element from it.                                        *)
(***************************************************************************)
SeenOnlyGrows ==
    /\ [](pc = "open" => seen = {})
    /\ [][seen \subseteq seen']_vars

\* three hosts are in the seen-set and the run has ended
SeenOnlyGrowsWitness ==
    /\ pc = "done"
    /\ Cardinality(seen) = 3

(***************************************************************************)
(* C18 - At every iteration boundary the seen-set is exactly the set of    *)
(* hosts for which a report line has been printed, and the number of       *)
(* report lines is the size of the seen-set.                               *)
(***************************************************************************)
SeenEqualsReported ==
    AtBoundary =>
        /\ seen = {HostOf(out[k]) : k \in 1..Len(out)}
        /\ Len(out) = Cardinality(seen)

\* between two iterations, two hosts seen and reported, with a line that
\* named one of them again already passed over
SeenEqualsReportedWitness ==
    /\ pc = "loop"
    /\ i = 3
    /\ Cardinality(seen) = 2
    /\ Len(out) = 2
    /\ Names[3] = Names[1]

(***************************************************************************)
(* C19 - Whenever a probe starts, the failure counter is between 0 and the *)
(* threshold; a value above the threshold exists only inside the step      *)
(* that resets it to 0 and cools down.                                     *)
(***************************************************************************)
CounterWithinThreshold ==
    /\ pc = "connect" => failed \in 0..Threshold
    /\ failed > Threshold => pc = "backoff"

\* a probe starts after an earlier probe has failed: the counter is 1
CounterWithinThresholdWitness ==
    /\ pc = "connect"
    /\ Len(out) = 1
    /\ FailedLine(1)
    /\ failed = 1

====
